---------------------------- MODULE Spec2Model ----------------------------
(***************************************************************************)
(* Existential Graphs Reasoner (aegraph.cpp).                              *)
(*                                                                         *)
(* A std::string is a sequence of one-character strings.  An AEGraph is a  *)
(* record [is_SA, atoms, subgraphs]; atoms is a sequence of strings and    *)
(* subgraphs a sequence of AEGraph records.  An address (std::vector<int>) *)
(* is a sequence of 0-based indices, as in the code.  pc is "ready" while   *)
(* the program runs and "aborted" once it has been stopped.               *)
(***************************************************************************)
EXTENDS Integers, Sequences, FiniteSets

VARIABLES pc, text, g, prev, lastOp, lastAddr

vars == <<pc, text, g, prev, lastOp, lastAddr>>

(***************************************************************************)
(* Characters and std::string comparison                                   *)
(***************************************************************************)

\* the value of a char, as operator< of std::string compares them
Ord(c) ==
    CASE c = "\t" -> 9
      [] c = "\n" -> 10
      [] c = "\r" -> 13
      [] c = " "  -> 32
      [] c = "("  -> 40
      [] c = ")"  -> 41
      [] c = ","  -> 44
      [] c = "A"  -> 65
      [] c = "B"  -> 66
      [] c = "C"  -> 67
      [] c = "D"  -> 68
      [] c = "["  -> 91
      [] c = "]"  -> 93

RECURSIVE StrLessFrom(_, _, _)
StrLessFrom(s, t, i) ==
    IF i > Len(t) THEN FALSE
    ELSE IF i > Len(s) THEN TRUE
    ELSE IF s[i] # t[i] THEN Ord(s[i]) < Ord(t[i])
    ELSE StrLessFrom(s, t, i + 1)

\* std::string operator<
StrLess(s, t) == StrLessFrom(s, t, 1)

(***************************************************************************)
(* strip, split_first, split_level                                         *)
(***************************************************************************)

Whitespace == {" ", "\n", "\r", "\t"}

RECURSIVE find_first_not_of(_, _)
find_first_not_of(s, i) ==
    IF i > Len(s) THEN Len(s) + 1
    ELSE IF s[i] \notin Whitespace THEN i
    ELSE find_first_not_of(s, i + 1)

RECURSIVE find_last_not_of(_, _)
find_last_not_of(s, i) ==
    IF i < 1 THEN 0
    ELSE IF s[i] \notin Whitespace THEN i
    ELSE find_last_not_of(s, i - 1)

strip(s) ==
    LET s1 == SubSeq(s, find_first_not_of(s, 1), Len(s))
    IN  SubSeq(s1, 1, find_last_not_of(s1, Len(s1)))

RECURSIVE split_first_loop(_, _, _)
split_first_loop(s, i, numOpen) ==
    IF i > Len(s) THEN <<strip(s), <<>>>>
    ELSE IF s[i] = "," /\ numOpen = 0
         THEN <<strip(SubSeq(s, 1, i - 1)), strip(SubSeq(s, i + 1, Len(s)))>>
    ELSE split_first_loop(s, i + 1,
             numOpen + (IF s[i] = "[" THEN 1 ELSE 0)
                     - (IF s[i] = "]" THEN 1 ELSE 0))

\* <<first element, rest>>, split at the first ',' outside every [ ]
split_first(s) == split_first_loop(s, 1, 0)

RECURSIVE split_level_loop(_, _)
split_level_loop(snd, result) ==
    LET p == split_first(snd)
    IN  IF p[2] = <<>> THEN Append(result, p[1])
        ELSE split_level_loop(p[2], Append(result, p[1]))

split_level(s) == split_level_loop(s, <<>>)

(***************************************************************************)
(* Sizes                                                                   *)
(***************************************************************************)

num_subgraphs(n) == Len(n.subgraphs)

num_atoms(n) == Len(n.atoms)

size(n) == num_atoms(n) + num_subgraphs(n)

(***************************************************************************)
(* repr, comparison, sort                                                  *)
(***************************************************************************)

RECURSIVE Join(_)
Join(ss) == IF ss = <<>> THEN <<>> ELSE Head(ss) \o Join(Tail(ss))

RECURSIVE repr(_)
repr(n) ==
    LET left   == IF n.is_SA THEN <<"(">> ELSE <<"[">>
        right  == IF n.is_SA THEN <<")">> ELSE <<"]">>
        subs   == Join([i \in 1..Len(n.subgraphs) |->
                           repr(n.subgraphs[i]) \o <<",", " ">>])
        len    == Len(n.atoms)
        atomsR == Join([i \in 1..len |->
                           IF i < len THEN n.atoms[i] \o <<",", " ">>
                                      ELSE n.atoms[i]])
    IN  IF len # 0 THEN left \o subs \o atomsR \o right
        ELSE IF Len(n.subgraphs) # 0
             THEN left \o SubSeq(subs, 1, Len(subs) - 2) \o right
        ELSE left \o subs \o right

\* AEGraph::operator<
GraphLess(a, b) == StrLess(repr(a), repr(b))

\* AEGraph::operator==
GraphEq(a, b) == repr(a) = repr(b)

\* std::sort on the elements vals, ordered by operator< of their keys
RECURSIVE InsertSorted(_, _)
InsertSorted(x, s) ==
    IF s = <<>> THEN <<x>>
    ELSE IF StrLess(x.key, Head(s).key) THEN <<x>> \o s
    ELSE <<Head(s)>> \o InsertSorted(x, Tail(s))

RECURSIVE SortKeyed(_)
SortKeyed(s) ==
    IF s = <<>> THEN <<>>
    ELSE InsertSorted(Head(s), SortKeyed(Tail(s)))

std_sort(vals, keys) ==
    LET sorted == SortKeyed([i \in 1..Len(vals) |-> [key |-> keys[i], val |-> vals[i]]])
    IN  [i \in 1..Len(vals) |-> sorted[i].val]

RECURSIVE sort(_)
sort(n) ==
    LET sgs == [i \in 1..Len(n.subgraphs) |-> sort(n.subgraphs[i])]
    IN  [is_SA     |-> n.is_SA,
         atoms     |-> std_sort(n.atoms, n.atoms),
         subgraphs |-> std_sort(sgs, [i \in 1..Len(sgs) |-> repr(sgs[i])])]

(***************************************************************************)
(* Constructor from text                                                   *)
(***************************************************************************)

StartsCut(s) == s # <<>> /\ s[1] = "["

\* the assert of the constructor, here and in every nested construction
RECURSIVE AssertOK(_)
AssertOK(representation) ==
    /\ Len(representation) >= 2
    /\ LET left_sep  == representation[1]
           right_sep == representation[Len(representation)]
       IN  \/ left_sep = "(" /\ right_sep = ")"
           \/ left_sep = "[" /\ right_sep = "]"
    /\ LET v == split_level(SubSeq(representation, 2, Len(representation) - 1))
       IN  \A i \in 1..Len(v) : StartsCut(v[i]) => AssertOK(v[i])

RECURSIVE AEGraph(_)
AEGraph(representation) ==
    LET v == split_level(SubSeq(representation, 2, Len(representation) - 1))
        a == SelectSeq(v, LAMBDA s : ~StartsCut(s))
        c == SelectSeq(v, StartsCut)
    IN  sort([is_SA     |-> representation[1] = "(",
              atoms     |-> a,
              subgraphs |-> [i \in 1..Len(c) |-> AEGraph(c[i])]])

(***************************************************************************)
(* contains, get_paths_to                                                  *)
(***************************************************************************)

\* every path of paths with index i put in front
Prepend(i, paths) == [k \in 1..Len(paths) |-> <<i>> \o paths[k]]

RECURSIVE contains(_, _)
contains(n, other) ==
    \/ \E i \in 1..Len(n.atoms) : n.atoms[i] = other
    \/ \E i \in 1..Len(n.subgraphs) : contains(n.subgraphs[i], other)

\* get_paths_to without the test size() > 1
RECURSIVE get_paths_to_atom_any_size(_, _)
get_paths_to_atom_any_size(n, other) ==
    LET len_atoms     == num_atoms(n)
        len_subgraphs == num_subgraphs(n)
    IN  Join([i \in 1..len_atoms |->
                 IF n.atoms[i] = other
                 THEN <<<<(i - 1) + len_subgraphs>>>> ELSE <<>>])
        \o
        Join([i \in 1..len_subgraphs |->
                 IF contains(n.subgraphs[i], other)
                 THEN Prepend(i - 1, get_paths_to_atom_any_size(n.subgraphs[i], other))
                 ELSE <<>>])

\* get_paths_to with the index of an atom not offset by len_subgraphs
RECURSIVE get_paths_to_atom_no_offset(_, _)
get_paths_to_atom_no_offset(n, other) ==
    LET len_atoms     == num_atoms(n)
        len_subgraphs == num_subgraphs(n)
    IN  Join([i \in 1..len_atoms |->
                 IF n.atoms[i] = other /\ size(n) > 1
                 THEN <<<<i - 1>>>> ELSE <<>>])
        \o
        Join([i \in 1..len_subgraphs |->
                 IF contains(n.subgraphs[i], other)
                 THEN Prepend(i - 1, get_paths_to_atom_no_offset(n.subgraphs[i], other))
                 ELSE <<>>])

RECURSIVE get_paths_to_atom(_, _)
get_paths_to_atom(n, other) ==
    LET len_atoms     == num_atoms(n)
        len_subgraphs == num_subgraphs(n)
    IN  Join([i \in 1..len_atoms |->
                 IF n.atoms[i] = other /\ size(n) > 1
                 THEN <<<<(i - 1) + len_subgraphs>>>> ELSE <<>>])
        \o
        Join([i \in 1..len_subgraphs |->
                 IF contains(n.subgraphs[i], other)
                 THEN Prepend(i - 1, get_paths_to_atom(n.subgraphs[i], other))
                 ELSE <<>>])

RECURSIVE get_paths_to_graph(_, _)
get_paths_to_graph(n, other) ==
    Join([i \in 1..num_subgraphs(n) |->
             IF GraphEq(n.subgraphs[i], other) /\ size(n) > 1
             THEN <<<<i - 1>>>>
             ELSE Prepend(i - 1, get_paths_to_graph(n.subgraphs[i], other))])

(***************************************************************************)
(* Double cut                                                              *)
(***************************************************************************)

RECURSIVE possible_double_cuts(_)
possible_double_cuts(n) ==
    Join([i \in 1..num_subgraphs(n) |->
             (IF num_subgraphs(n.subgraphs[i]) = 1 /\ num_atoms(n.subgraphs[i]) = 0
              THEN <<<<i - 1>>>> ELSE <<>>)
             \o Prepend(i - 1, possible_double_cuts(n.subgraphs[i]))])

\* where.capacity(): where is a by-value copy at every call, so its capacity
\* is its size
capacity(where) == Len(where)

\* vector::erase(begin() + k)
EraseAt(s, k) == SubSeq(s, 1, k) \o SubSeq(s, k + 2, Len(s))

\* double_cut_helper without the push_back of the atoms of the inner cut
RECURSIVE double_cut_helper_no_atoms(_, _)
double_cut_helper_no_atoms(where, node) ==
    IF capacity(where) # 1
    THEN LET index == where[1]
         IN  [node EXCEPT !.subgraphs[index + 1] =
                              double_cut_helper_no_atoms(Tail(where), @)]
    ELSE LET aux == node.subgraphs[where[1] + 1].subgraphs[1]
         IN  [node EXCEPT !.subgraphs = EraseAt(@ \o aux.subgraphs, where[1])]

RECURSIVE double_cut_helper(_, _)
double_cut_helper(where, node) ==
    IF capacity(where) # 1
    THEN LET index == where[1]
         IN  [node EXCEPT !.subgraphs[index + 1] =
                              double_cut_helper(Tail(where), @)]
    ELSE LET aux == node.subgraphs[where[1] + 1].subgraphs[1]
         IN  [node EXCEPT !.subgraphs = EraseAt(@ \o aux.subgraphs, where[1]),
                          !.atoms     = @ \o aux.atoms]

double_cut(n, where) == double_cut_helper(where, n)

(***************************************************************************)
(* Erasure                                                                 *)
(***************************************************************************)

\* possible_erasures without the pop_back for a node with a single child
RECURSIVE possible_erasures_one_pop(_, _)
possible_erasures_one_pop(n, level) ==
    Join([i \in 1..(num_subgraphs(n) + num_atoms(n)) |->
             LET pushed == IF level % 2 # 0 THEN <<<<i - 1>>>> ELSE <<>>
                 pop1   == IF /\ pushed # <<>>
                              /\ level # -1
                              /\ num_subgraphs(n) = 0 /\ num_atoms(n) = 1
                           THEN <<>> ELSE pushed
             IN  pop1 \o
                 (IF i - 1 < num_subgraphs(n)
                  THEN Prepend(i - 1, possible_erasures_one_pop(n.subgraphs[i], level + 1))
                  ELSE <<>>)])

RECURSIVE possible_erasures(_, _)
possible_erasures(n, level) ==
    Join([i \in 1..(num_subgraphs(n) + num_atoms(n)) |->
             LET pushed == IF level % 2 # 0 THEN <<<<i - 1>>>> ELSE <<>>
                 pop1   == IF /\ pushed # <<>>
                              /\ level # -1
                              /\ num_subgraphs(n) = 0 /\ num_atoms(n) = 1
                           THEN <<>> ELSE pushed
                 pop2   == IF /\ pushed # <<>>
                              /\ pop1 # <<>>
                              /\ level # -1
                              /\ num_subgraphs(n) = 1 /\ num_atoms(n) = 0
                           THEN <<>> ELSE pop1
             IN  pop2 \o
                 (IF i - 1 < num_subgraphs(n)
                  THEN Prepend(i - 1, possible_erasures(n.subgraphs[i], level + 1))
                  ELSE <<>>)])

RECURSIVE erase_helper(_, _)
erase_helper(where, node) ==
    IF capacity(where) # 1
    THEN LET index == where[1]
         IN  [node EXCEPT !.subgraphs[index + 1] = erase_helper(Tail(where), @)]
    ELSE IF num_subgraphs(node) - where[1] <= 0
         THEN [node EXCEPT !.atoms = EraseAt(@, where[1] - num_subgraphs(node))]
         ELSE [node EXCEPT !.subgraphs = EraseAt(@, where[1])]

erase(n, where) == erase_helper(where, n)

\* node.atoms.begin() - node.num_subgraphs() + where[0] is evaluated from
\* the left: in a node with subgraphs the iterator
\* atoms.begin() - num_subgraphs() lies before begin(), which is undefined
RECURSIVE erase_retreats(_, _)
erase_retreats(where, node) ==
    IF capacity(where) # 1
    THEN erase_retreats(Tail(where), node.subgraphs[where[1] + 1])
    ELSE num_subgraphs(node) - where[1] <= 0 /\ num_subgraphs(node) > 0

\* what erase can do: return the graph with the element erased; where the
\* iterator is stepped before begin(), a library that checks its iterators
\* stops the program instead
erase_outcomes(n, where) ==
    {[completed |-> TRUE, graph |-> erase(n, where)]}
    \cup (IF erase_retreats(where, n)
          THEN {[completed |-> FALSE, graph |-> n]} ELSE {})

(***************************************************************************)
(* Deiteration                                                             *)
(***************************************************************************)

possible_deiterations(n) ==
    Join([i \in 1..num_subgraphs(n) |->
             Join([j \in 1..num_subgraphs(n) |->
                      IF i # j
                      THEN Prepend(j - 1, get_paths_to_graph(n.subgraphs[j],
                                                             n.subgraphs[i]))
                      ELSE <<>>])])
    \o
    Join([i \in 1..num_atoms(n) |->
             Join([j \in 1..num_subgraphs(n) |->
                      Prepend(j - 1, get_paths_to_atom(n.subgraphs[j],
                                                       n.atoms[i]))])])

RECURSIVE deiterate_helper(_, _)
deiterate_helper(where, node) ==
    IF capacity(where) # 1
    THEN LET index == where[1]
         IN  [node EXCEPT !.subgraphs[index + 1] =
                              deiterate_helper(Tail(where), @)]
    ELSE IF num_subgraphs(node) - where[1] <= 0
         THEN [node EXCEPT !.atoms = EraseAt(@, where[1] - num_subgraphs(node))]
         ELSE [node EXCEPT !.subgraphs = EraseAt(@, where[1])]

deiterate(n, where) == deiterate_helper(where, n)

\* as in erase_helper, atoms.begin() - num_subgraphs() lies before begin()
\* in a node with subgraphs
RECURSIVE deiterate_retreats(_, _)
deiterate_retreats(where, node) ==
    IF capacity(where) # 1
    THEN deiterate_retreats(Tail(where), node.subgraphs[where[1] + 1])
    ELSE num_subgraphs(node) - where[1] <= 0 /\ num_subgraphs(node) > 0

deiterate_outcomes(n, where) ==
    {[completed |-> TRUE, graph |-> deiterate(n, where)]}
    \cup (IF deiterate_retreats(where, n)
          THEN {[completed |-> FALSE, graph |-> n]} ELSE {})

(***************************************************************************)
(* Input texts                                                             *)
(***************************************************************************)

\* longest text drawn character by character
MaxRawLen == 4

\* most elements (atoms and cuts) of a text written in the bracket notation
MaxElems == 5

RawChars == {"(", ")", "[", "]", ",", " ", "A"}

RawTexts == UNION {[1..k -> RawChars] : k \in 1..MaxRawLen}

AtomNames == {<<"A">>, <<"B">>}

\* the comma separated lists of exactly k elements in all, nested ones counted
ListTexts[k \in 0..MaxElems] ==
    IF k = 0 THEN {<<>>}
    ELSE LET Elem(m) == (IF m = 1 THEN AtomNames ELSE {})
                        \cup {<<"[">> \o f \o <<"]">> : f \in ListTexts[m - 1]}
         IN  Elem(k) \cup
             UNION {{e \o <<",", " ">> \o f : e \in Elem(m), f \in ListTexts[k - m]}
                    : m \in 1..(k - 1)}

SheetTexts == UNION {{<<"(">> \o f \o <<")">> : f \in ListTexts[k]}
                     : k \in 0..MaxElems}

\* the texts of the documented examples
Text_A_cutB      == <<"(", "A", ",", " ", "[", "B", "]", ")">>
Text_dcC         == <<"(", "[", "[", "C", "]", "]", ")">>
Text_A_cutA      == <<"(", "A", ",", " ", "[", "A", "]", ")">>
Text_A_cutBC     == <<"(", "A", ",", " ", "[", "B", ",", " ", "C", "]", ")">>
Text_A_BC_dcD    == <<"(", "A", ",", " ", "[", "B", ",", " ", "C", "]", ",", " ", "[", "[", "D", "]", "]", ")">>
Text_A_emptycut  == <<"(", "A", ",", " ", "[", "]", ")">>
Text_C           == <<"(", "C", ")">>
Text_emptycut    == <<"[", "]">>
Text_emptysheet  == <<"(", ")">>
Text_dcEmpty     == <<"[", "[", "]", "]">>

ScenarioTexts == {Text_A_cutB, Text_dcC, Text_A_cutA, Text_A_cutBC, Text_A_BC_dcD}

Inputs == RawTexts \cup SheetTexts \cup ScenarioTexts

(***************************************************************************)
(* The caller: a graph constructed from a text, then rules applied at      *)
(* enumerated addresses.  A text that fails the assert of the constructor  *)
(* constructs no graph.                                                    *)
(***************************************************************************)

NoGraph == [is_SA |-> TRUE, atoms |-> <<>>, subgraphs |-> <<>>]

Range(s) == {s[i] : i \in 1..Len(s)}

Constructed(texts) ==
    /\ pc = "ready"
    /\ text \in texts
    /\ AssertOK(text)
    /\ g = AEGraph(text)
    /\ prev = NoGraph
    /\ lastOp = "construct"
    /\ lastAddr = <<>>

Init == Constructed(Inputs)

DoubleCut ==
    /\ pc = "ready"
    /\ \E where \in Range(possible_double_cuts(g)) :
          /\ g' = double_cut(g, where)
          /\ lastAddr' = where
    /\ prev' = g
    /\ lastOp' = "double_cut"
    /\ UNCHANGED <<pc, text>>

Erase ==
    /\ pc = "ready"
    /\ \E where \in Range(possible_erasures(g, 0)) :
          \E outcome \in erase_outcomes(g, where) :
             /\ g' = outcome.graph
             /\ pc' = IF outcome.completed THEN "ready" ELSE "aborted"
             /\ lastAddr' = where
    /\ prev' = g
    /\ lastOp' = "erase"
    /\ UNCHANGED text

Deiterate ==
    /\ pc = "ready"
    /\ \E where \in Range(possible_deiterations(g)) :
          \E outcome \in deiterate_outcomes(g, where) :
             /\ g' = outcome.graph
             /\ pc' = IF outcome.completed THEN "ready" ELSE "aborted"
             /\ lastAddr' = where
    /\ prev' = g
    /\ lastOp' = "deiterate"
    /\ UNCHANGED text

Next == DoubleCut \/ Erase \/ Deiterate

Spec == Init /\ [][Next]_vars

(***************************************************************************)
(* Vocabulary of the properties                                            *)
(***************************************************************************)

Rules == {"double_cut", "erase", "deiterate"}

Front(a) == SubSeq(a, 1, Len(a) - 1)

Last(a) == a[Len(a)]

\* the node reached from n along the child indices of path
RECURSIVE NodeAt(_, _)
NodeAt(n, path) ==
    IF path = <<>> THEN n ELSE NodeAt(n.subgraphs[path[1] + 1], Tail(path))

\* the paths of all nodes of the tree n
RECURSIVE NodePaths(_)
NodePaths(n) ==
    {<<>>} \cup UNION {{<<i - 1>> \o p : p \in NodePaths(n.subgraphs[i])}
                       : i \in 1..num_subgraphs(n)}

\* the addresses of all elements (children and atoms) of all nodes of n
InRangeAddrs(n) ==
    UNION {{p \o <<i>> : i \in 0..(size(NodeAt(n, p)) - 1)} : p \in NodePaths(n)}

\* every non-final index names a child, the final one an element
RECURSIVE InRange(_, _)
InRange(n, a) ==
    /\ Len(a) >= 1
    /\ a[1] >= 0
    /\ IF Len(a) = 1 THEN a[1] < num_subgraphs(n) + num_atoms(n)
       ELSE a[1] < num_subgraphs(n) /\ InRange(n.subgraphs[a[1] + 1], Tail(a))

Sorted(n) ==
    /\ \A i, j \in 1..num_atoms(n) : i < j => ~StrLess(n.atoms[j], n.atoms[i])
    /\ \A i, j \in 1..num_subgraphs(n) :
          i < j => ~GraphLess(n.subgraphs[j], n.subgraphs[i])

Canonical(n) == \A p \in NodePaths(n) : Sorted(NodeAt(n, p))

\* the cuts and atom occurrences of the tree n
RECURSIVE NodeCount(_)
NodeCount(n) ==
    IF num_subgraphs(n) = 0 THEN 1 + num_atoms(n)
    ELSE NodeCount([n EXCEPT !.subgraphs = Tail(@)]) + NodeCount(n.subgraphs[1])

Count(s, x) == Cardinality({i \in 1..Len(s) : s[i] = x})

\* s is, as a multiset, plus \o minus
SameBag(s, plus, minus) ==
    \A x \in Range(s) \cup Range(plus) \cup Range(minus) :
        Count(s, x) + Count(minus, x) = Count(plus, x)

Quiescent ==
    /\ pc = "ready"
    /\ possible_double_cuts(g) = <<>>
    /\ possible_erasures(g, 0) = <<>>
    /\ possible_deiterations(g) = <<>>

(***************************************************************************)
(* C1                                                                      *)
(***************************************************************************)

\* C1: after construction and after every rule application at an enumerated
\* address, the graph is canonical: at every node the atoms are in
\* lexicographic order and the children in the order of their repr.
C1_CanonicalPreserved == Canonical(g)

(***************************************************************************)
(* C2                                                                      *)
(***************************************************************************)

\* C2: every canonical graph, constructed or reached by rule applications,
\* is reconstructed from its repr: the text is accepted, the result has the
\* same repr and the same atoms and children at every level.
C2_RoundTrip ==
    Canonical(g) =>
        /\ AssertOK(repr(g))
        /\ repr(AEGraph(repr(g))) = repr(g)
        /\ AEGraph(repr(g)) = g

(***************************************************************************)
(* C3                                                                      *)
(***************************************************************************)

IsEmptyNode(n) == num_atoms(n) = 0 /\ num_subgraphs(n) = 0 /\ size(n) = 0

\* C3: the graphs constructed from "[]" and "()" have no atoms, no children
\* and size 0, and so has the inner cut of the graph constructed from "[[]]".
C3_EmptyCutSizeZero ==
    lastOp = "construct" =>
        /\ text \in {Text_emptycut, Text_emptysheet} => IsEmptyNode(g)
        /\ text = Text_dcEmpty =>
              num_subgraphs(g) = 1 /\ IsEmptyNode(g.subgraphs[1])

(***************************************************************************)
(* C4                                                                      *)
(***************************************************************************)

\* C4 as stated: for the graph constructed from "(A, [A])",
\* possible_deiterations returns the address [0,0] of the inner A, and
\* deiterate there gives a graph equal to the one constructed from "(A, [])".
C4_DeiterationScenario ==
    (lastOp = "construct" /\ text = Text_A_cutA) =>
        /\ <<0, 0>> \in Range(possible_deiterations(g))
        /\ GraphEq(deiterate(g, <<0, 0>>), AEGraph(Text_A_emptycut))

\* C4 amended: for the graph constructed from "(A, [A])",
\* possible_deiterations returns no address (the inner A is the only element
\* of its cut); [0,0] is the address of the inner A, and deiterate there
\* gives a graph equal to the one constructed from "(A, [])".
C4_DeiterationScenarioAmended ==
    (lastOp = "construct" /\ text = Text_A_cutA) =>
        /\ possible_deiterations(g) = <<>>
        /\ InRange(g, <<0, 0>>)
        /\ NodeAt(g, <<0>>).atoms = <<g.atoms[1]>>
        /\ GraphEq(deiterate(g, <<0, 0>>), AEGraph(Text_A_emptycut))

C4_Witness ==
    /\ lastOp = "construct" /\ text = Text_A_cutA
    /\ g.atoms = << <<"A">> >>
    /\ num_subgraphs(g) = 1

(***************************************************************************)
(* C5                                                                      *)
(***************************************************************************)

\* the elements of the nodes at an odd level that have two elements or more
OddLevelElements(n) ==
    UNION {{p \o <<i>> : i \in 0..(size(NodeAt(n, p)) - 1)}
           : p \in {q \in NodePaths(n) : Len(q) % 2 = 1 /\ size(NodeAt(n, q)) >= 2}}

\* C5: possible_erasures at level 0 returns exactly the addresses of the
\* elements of the nodes that lie at an odd level and have size >= 2; so it
\* returns no element of a node with a single element, of the root or of a
\* node at an even level.
C5_ErasableExactlyOddLevels ==
    LET road == possible_erasures(g, 0)
    IN  /\ Range(road) = OddLevelElements(g)
        /\ \A a \in Range(road) :
              /\ Len(a) % 2 = 0
              /\ size(NodeAt(g, Front(a))) >= 2

C5_Witness ==
    /\ \E a \in Range(possible_erasures(g, 0)) : Len(a) = 4
    /\ \E p \in NodePaths(g) : Len(p) % 2 = 1 /\ size(NodeAt(g, p)) = 1
    /\ \E p \in NodePaths(g) : Len(p) = 2 /\ size(NodeAt(g, p)) >= 1

(***************************************************************************)
(* C6                                                                      *)
(***************************************************************************)

\* the address names a child that has exactly one child and no atoms
IsDoubleCutAt(n, a) ==
    /\ InRange(n, a)
    /\ Last(a) < num_subgraphs(NodeAt(n, Front(a)))
    /\ LET target == NodeAt(n, a)
       IN  num_subgraphs(target) = 1 /\ num_atoms(target) = 0

\* every address of possible_double_cuts names, through existing children,
\* a child with exactly one child and no atoms; every address of
\* possible_erasures and of possible_deiterations names, through existing
\* children, an index below num_subgraphs + num_atoms of its node
EnumeratedAddressesWellFormed ==
    /\ \A a \in Range(possible_double_cuts(g)) : IsDoubleCutAt(g, a)
    /\ \A a \in Range(possible_erasures(g, 0)) : InRange(g, a)
    /\ \A a \in Range(possible_deiterations(g)) : InRange(g, a)

EqualsDominator(n, a) ==
    /\ Len(a) >= 2
    /\ InRange(n, a)
    /\ LET j == a[1]
           p == NodeAt(n, Front(a))
           k == Last(a)
       IN  IF k < num_subgraphs(p)
           THEN \E i \in 1..num_subgraphs(n) :
                   i - 1 # j /\ GraphEq(p.subgraphs[k + 1], n.subgraphs[i])
           ELSE \E i \in 1..num_atoms(n) :
                   p.atoms[k - num_subgraphs(p) + 1] = n.atoms[i]

\* C7: every address of possible_deiterations names an element strictly
\* inside a root child j that is equal to another root child, or is an atom
\* of the root.
C7_DeiterableEqualsDominator ==
    \A a \in Range(possible_deiterations(g)) : EqualsDominator(g, a)

C7_Witness ==
    /\ \E a \in Range(possible_deiterations(g)) :
          Last(a) < num_subgraphs(NodeAt(g, Front(a)))
    /\ \E a \in Range(possible_deiterations(g)) :
          /\ Last(a) >= num_subgraphs(NodeAt(g, Front(a)))
          /\ num_subgraphs(NodeAt(g, Front(a))) >= 1

(***************************************************************************)
(* C8                                                                      *)
(***************************************************************************)

\* new is old with the content of the inner cut of the double cut at a
\* spliced into the parent of the double cut
RECURSIVE Spliced(_, _, _)
Spliced(old, new, a) ==
    /\ new.is_SA = old.is_SA
    /\ IF Len(a) = 1
       THEN LET target == old.subgraphs[a[1] + 1]
                inner  == target.subgraphs[1]
            IN  /\ SameBag(new.atoms, old.atoms \o inner.atoms, <<>>)
                /\ SameBag(new.subgraphs, old.subgraphs \o inner.subgraphs,
                           <<target>>)
       ELSE /\ new.atoms = old.atoms
            /\ Len(new.subgraphs) = Len(old.subgraphs)
            /\ \A k \in 1..Len(old.subgraphs) :
                  IF k = a[1] + 1
                  THEN Spliced(old.subgraphs[k], new.subgraphs[k], Tail(a))
                  ELSE new.subgraphs[k] = old.subgraphs[k]

\* C8: double_cut at an enumerated address gives the parent of the double
\* cut, as multisets, its old atoms plus the atoms of the inner cut and its
\* old children minus the double cut plus the children of the inner cut, and
\* leaves every other node as it was; for "([[C]])" the only address is [0]
\* and the result equals the graph constructed from "(C)".
C8_DoubleCutSplices ==
    /\ lastOp = "double_cut" => Spliced(prev, g, lastAddr)
    /\ (lastOp = "construct" /\ text = Text_dcC) =>
          /\ possible_double_cuts(g) = << <<0>> >>
          /\ GraphEq(double_cut(g, <<0>>), AEGraph(Text_C))

C8_Witness ==
    /\ lastOp = "double_cut"
    /\ LET parent == NodeAt(prev, Front(lastAddr))
           inner  == NodeAt(prev, lastAddr).subgraphs[1]
       IN  /\ size(parent) >= 2
           /\ num_atoms(inner) >= 1
           /\ num_subgraphs(inner) >= 1

(***************************************************************************)
(* C9                                                                      *)
(***************************************************************************)

\* s is r without the element at 0-based position k, the others in order
Without(s, r, k) ==
    /\ Len(s) = Len(r) - 1
    /\ \A m \in 1..Len(s) : s[m] = r[IF m <= k THEN m ELSE m + 1]

\* new differs from old only in the node the final index of a is resolved
\* in, which lost the child, or else the atom, at that index
RECURSIVE RemovedExactly(_, _, _)
RemovedExactly(old, new, a) ==
    /\ new.is_SA = old.is_SA
    /\ IF Len(a) = 1
       THEN /\ size(new) = size(old) - 1
            /\ IF a[1] < num_subgraphs(old)
               THEN /\ Without(new.subgraphs, old.subgraphs, a[1])
                    /\ new.atoms = old.atoms
               ELSE /\ Without(new.atoms, old.atoms, a[1] - num_subgraphs(old))
                    /\ new.subgraphs = old.subgraphs
       ELSE /\ new.atoms = old.atoms
            /\ Len(new.subgraphs) = Len(old.subgraphs)
            /\ \A k \in 1..Len(old.subgraphs) :
                  IF k = a[1] + 1
                  THEN RemovedExactly(old.subgraphs[k], new.subgraphs[k], Tail(a))
                  ELSE new.subgraphs[k] = old.subgraphs[k]

CompletedRemovalExact ==
    /\ (lastOp \in {"erase", "deiterate"} /\ pc = "ready") =>
          RemovedExactly(prev, g, lastAddr)
    /\ \A a \in InRangeAddrs(g) :
          /\ RemovedExactly(g, erase(g, a), a)
          /\ RemovedExactly(g, deiterate(g, a), a)

(***************************************************************************)
(* C10                                                                     *)
(***************************************************************************)

\* most elements of a text of the runs checked for termination
MaxLiveElems == 4

LiveInputs ==
    UNION {{<<"(">> \o f \o <<")">> : f \in ListTexts[k]} : k \in 0..MaxLiveElems}
    \cup ScenarioTexts
    \cup {t \in RawTexts : Len(t) <= 2}

InitLive == Constructed(LiveInputs)

\* the caller goes on applying rules as long as a rule has a site
FairSpec == InitLive /\ [][Next]_vars /\ WF_vars(Next)

CompletedStepsDecrease ==
    /\ [][pc' = "ready" => NodeCount(g') < NodeCount(g)]_vars
    /\ <>(Quiescent \/ pc = "aborted")

=============================================================================
